---- MODULE Spec2Model ----
(***************************************************************************)
(* A model of rpm-package-function: the organiser that relocates uploaded  *)
(* RPM packages into their canonical place in a blob container, and the    *)
(* repository manager that keeps one metadata fragment per package and one *)
(* merged index (repodata) per directory.                                  *)
(*                                                                         *)
(* Blob names and the fields of a package identity are strings, modelled   *)
(* as sequences of one-character strings so that prefix listing, suffixes  *)
(* and the two regular expressions are computed character by character.    *)
(***************************************************************************)
EXTENDS Integers, Sequences, FiniteSets, TLC

VARIABLES
    store,             \* the container: blob name -> [content, lm, meta]
    writes,            \* blob name -> how many times the blob has been written
    proc,              \* per run (function over the active runs): position and locals of process()
    upload_directory,  \* the organiser's upload_directory argument
    policy,            \* "distribution" | "flat": which repository class was constructed
    started,           \* process() has been called
    nTouch,            \* client overwrites of an existing package so far
    envSinceStart,     \* a client changed storage since the latest process() call began
    envSinceEnd,       \* a client changed storage since the latest process() call ended
    arg,               \* the package handed to get_path by the path specification
    result,            \* what get_path returned for it
    info,              \* the PackageInfo read from that package's headers
    again,             \* what get_path returned for a second handle of the same identity
    local,             \* the local organiser: position and locals of its organise()
    handle             \* one RemoteRpmPackage: its fields and the call in progress

vars == <<store, writes, proc, upload_directory, policy, started, nTouch,
          envSinceStart, envSinceEnd, arg, result, info, again, local, handle>>

----------------------------------------------------------------------------
(* Strings *)

NL == "\n"
Digits == {"0", "1", "2", "3", "4", "5", "6", "7", "8", "9"}
Lower == {"a", "b", "c", "d", "e", "f", "g", "h", "i", "j", "k", "l", "m",
          "n", "o", "p", "q", "r", "s", "t", "u", "v", "w", "x", "y", "z"}

\* The characters the model's strings are written in, in code-point order:
\* the service lists blobs in the order of their names.
Alphabet == <<NL, "-", ".", "/", "0", "1", "2", "3", "4", "5", "6", "7", "8", "9",
              "C", "a", "b", "c", "d", "e", "f", "g", "h", "i", "j", "k", "l", "m",
              "n", "o", "p", "q", "r", "s", "t", "u", "v", "w", "x", "y", "z">>

Ord(c) == CHOOSE i \in 1..Len(Alphabet) : Alphabet[i] = c

StartsWith(s, p) == Len(p) <= Len(s) /\ SubSeq(s, 1, Len(p)) = p

\* s < t in the order of blob names
StrLess(s, t) ==
    LET n     == IF Len(s) < Len(t) THEN Len(s) ELSE Len(t)
        diffs == {i \in 1..n : s[i] # t[i]}
    IN  IF diffs = {} THEN Len(s) < Len(t)
        ELSE LET i == CHOOSE x \in diffs : \A y \in diffs : x <= y
             IN  Ord(s[i]) < Ord(t[i])

\* the names of S as the service lists them
RECURSIVE Listing(_)
Listing(S) ==
    IF S = {} THEN <<>>
    ELSE LET first == CHOOSE k \in S : \A o \in S \ {k} : StrLess(k, o)
         IN  <<first>> \o Listing(S \ {first})

Range(s) == {s[i] : i \in 1..Len(s)}

\* index of the last occurrence of character c in s, 0 when there is none (str.rfind + 1)
RFind(s, c) ==
    LET hits == {i \in 1..Len(s) : s[i] = c}
    IN  IF hits = {} THEN 0 ELSE CHOOSE i \in hits : \A j \in hits : j <= i

\* length of the longest prefix of s whose characters all lie in Cls
RECURSIVE SpanLen(_, _)
SpanLen(s, Cls) ==
    IF s # <<>> /\ Head(s) \in Cls THEN 1 + SpanLen(Tail(s), Cls) ELSE 0

\* length of the longest prefix of s holding no character c
SpanNot(s, c) ==
    LET hits == {i \in 1..Len(s) : s[i] = c}
    IN  IF hits = {} THEN Len(s)
        ELSE (CHOOSE i \in hits : \A j \in hits : i <= j) - 1

Drop(s, n) == SubSeq(s, n + 1, Len(s))

----------------------------------------------------------------------------
(* pathlib.Path, as far as the program uses it: a path is the sequence of  *)
(* its parts.                                                              *)

Slash == <<"/">>
Dot == <<".">>

\* Path(str): split at "/", dropping empty and "." components
RECURSIVE PathOf(_)
PathOf(s) ==
    IF s = <<>> THEN <<>>
    ELSE LET n    == SpanNot(s, "/")
             part == SubSeq(s, 1, n)
             rest == IF n < Len(s) THEN Drop(s, n + 1) ELSE <<>>
         IN  (IF part = <<>> \/ part = Dot THEN <<>> ELSE <<part>>) \o PathOf(rest)

\* str(path)
RECURSIVE StrOf(_)
StrOf(p) ==
    IF p = <<>> THEN Dot
    ELSE IF Len(p) = 1 THEN p[1]
    ELSE p[1] \o Slash \o StrOf(Tail(p))

\* path.parent
Parent(p) == IF p = <<>> THEN <<>> ELSE SubSeq(p, 1, Len(p) - 1)

\* path.name
Name(p) == IF p = <<>> THEN <<>> ELSE p[Len(p)]

\* path.suffix: from the last "." of the name, unless the name starts or ends with it
Suffix(p) ==
    LET n == Name(p)
        i == RFind(n, ".")
    IN  IF 1 < i /\ i < Len(n) THEN SubSeq(n, i, Len(n)) ELSE <<>>

\* path.with_suffix(sfx)
WithSuffix(p, sfx) ==
    LET n    == Name(p)
        stem == SubSeq(n, 1, Len(n) - Len(Suffix(p)))
    IN  Parent(p) \o <<stem \o sfx>>

\* path / child
Join(p, child) == p \o PathOf(child)

RpmSuffix == <<".", "r", "p", "m">>
PackageSuffix == <<".", "p", "a", "c", "k", "a", "g", "e">>
Repodata == <<"r", "e", "p", "o", "d", "a", "t", "a">>
Rejected == <<"r", "e", "j", "e", "c", "t", "e", "d">>
DefaultUploadDirectory == <<"u", "p", "l", "o", "a", "d">>

\* the root every Azure repository hands its organiser: Path(".")
Root == PathOf(Dot)

----------------------------------------------------------------------------
(* Package identity *)

\* Python's None where a string or a match is optional: no string the program
\* tests against it is empty
None == <<>>

\* _package_info taking as distribution all that follows the first dot
DistOf_WholeRest(release) ==
    LET d    == SpanLen(release, Digits)
        rest == Drop(release, d)
    IN  IF d >= 1 /\ rest # <<>> /\ Head(rest) = "." /\ SpanNot(Tail(rest), ".") >= 1
        THEN Tail(rest)
        ELSE None

\* BaseRpmPackage._package_info: re.match(r"^\d+\.([^\.]+)", release)
DistOf(release) ==
    LET d    == SpanLen(release, Digits)
        rest == Drop(release, d)
    IN  IF d >= 1 /\ rest # <<>> /\ Head(rest) = "." /\ SpanNot(Tail(rest), ".") >= 1
        THEN SubSeq(Tail(rest), 1, SpanNot(Tail(rest), "."))
        ELSE None

\* BaseRpmPackage._package_info: the PackageInfo of a file with these headers
_package_info(headers) ==
    [name |-> headers.name, version |-> headers.version, dist |-> DistOf(headers.release),
     arch |-> headers.arch, release |-> headers.release]

\* get_path taking the two groups of its match in the other order
DistMatch_Swapped(dist) ==
    LET l    == SpanLen(dist, Lower)
        r1   == Drop(dist, l)
        d    == SpanLen(r1, Digits)
        tail == Drop(r1, d)
    IN  IF l >= 1 /\ d >= 1 /\ (tail = <<>> \/ tail = <<NL>>)
        THEN <<SubSeq(r1, 1, d), SubSeq(dist, 1, l)>>
        ELSE None

\* the groups of re.match(r"^([a-z]+)(\d+)$", dist), or None. "$" matches at
\* the end of the string and also just before a newline that ends it.
DistMatch(dist) ==
    LET l    == SpanLen(dist, Lower)
        r1   == Drop(dist, l)
        d    == SpanLen(r1, Digits)
        tail == Drop(r1, d)
    IN  IF l >= 1 /\ d >= 1 /\ (tail = <<>> \/ tail = <<NL>>)
        THEN <<SubSeq(dist, 1, l), SubSeq(r1, 1, d)>>
        ELSE None

\* get_path keeping the name of the file it was handed
Filename_AsUploaded(pkg) == pkg.path

\* f"{name}-{version}-{release}.{arch}.rpm"
Filename(pkg) ==
    pkg.name \o <<"-">> \o pkg.version \o <<"-">> \o pkg.release \o Dot \o pkg.arch \o RpmSuffix

\* DistributionPathMixin.get_path
DistributionGetPath(root, pkg) ==
    LET distribution == DistOf(pkg.release)
        m == IF distribution = None THEN None ELSE DistMatch(distribution)
    IN  IF distribution # None /\ m # None
        THEN Join(Join(Join(root, m[1]), m[2]), Filename(pkg))
        ELSE Join(Join(root, Rejected), Filename(pkg))

\* FlatPathMixin.get_path
FlatGetPath(root, pkg) == Join(root, Filename(pkg))

\* an organiser that applies the distribution layout whatever its class
get_path_AlwaysDistribution(pol, root, pkg) == DistributionGetPath(root, pkg)

get_path(pol, root, pkg) ==
    IF pol = "flat" THEN FlatGetPath(root, pkg) ELSE DistributionGetPath(root, pkg)

----------------------------------------------------------------------------
(* The blob container *)

METADATA_CHECK_KEY == "RpmLastModified"

\* str() of a last-modified time: its decimal digits
RECURSIVE ToStr(_)
ToStr(n) ==
    LET d == <<"0", "1", "2", "3", "4", "5", "6", "7", "8", "9">>[(n % 10) + 1]
    IN  IF n < 10 THEN <<d>> ELSE ToStr(n \div 10) \o <<d>>

Exists(st, k) == k \in DOMAIN st

\* the number of writes of blob k so far, and the count after one more
Written(w, k) == IF k \in DOMAIN w THEN w[k] ELSE 0
CountWrite(w, k) == [x \in DOMAIN w \cup {k} |-> IF x = k THEN Written(w, k) + 1 ELSE w[x]]

\* upload_blob(overwrite=True) / start_copy_from_url: the blob is replaced whole
Put(st, k, blob) == [x \in DOMAIN st \cup {k} |-> IF x = k THEN blob ELSE st[x]]

\* delete_blob
Delete(st, k) == [x \in DOMAIN st \ {k} |-> st[x]]

\* container_client.list_blobs(name_starts_with=prefix): names in listing order
list_blobs(st, prefix) ==
    Listing({k \in DOMAIN st : prefix = None \/ StartsWith(k, prefix)})

HasKey(meta, key) == \E kv \in meta : kv[1] = key
Get(meta, key) == (CHOOSE kv \in meta : kv[1] = key)[2]

\* a blob. Its last-modified time lm is the ordinal of its latest write: two
\* writes of one blob never carry the same time. Only a classified package's
\* time is ever read, so the other blobs keep 0.
Blob(content, lm, meta) == [content |-> content, lm |-> lm, meta |-> meta]

RpmContent(id) == [kind |-> "rpm", id |-> id]

\* an .rpm blob whose header rpmfile cannot read, and the test that
\* LocalRpmPackage(path) gets through _package_info
BadContent == [kind |-> "rpm", id |-> <<>>]
Parses(blob) == blob.content.id # <<>>
FragmentContent(pkg) == [kind |-> "fragment", of |-> pkg]
IndexContent(frags) == [kind |-> "index", covers |-> frags]

----------------------------------------------------------------------------
(* Organiser *)

\* AzureOrganiserMixin.list_uploads
list_uploads(st, updir) ==
    LET blobs == list_blobs(st, StrOf(Join(Root, updir)))
    IN  SelectSeq(blobs, LAMBDA name : Suffix(PathOf(name)) = RpmSuffix)

----------------------------------------------------------------------------
(* Repository manager *)

\* _skip_blob without its test for the rejected directory
_skip_blob_KeepRejected(blob_name) ==
    LET parent_parts == Parent(blob_name)
    IN  IF Suffix(blob_name) # RpmSuffix THEN TRUE
        ELSE IF parent_parts # <<>> /\ Name(parent_parts) = DefaultUploadDirectory THEN TRUE
        ELSE FALSE

\* AzureBaseRepository._skip_blob
_skip_blob(blob_name) ==
    LET parent_parts == Parent(blob_name)
    IN  IF Suffix(blob_name) # RpmSuffix THEN TRUE
        ELSE IF parent_parts # <<>> /\ Name(parent_parts) = DefaultUploadDirectory THEN TRUE
        ELSE IF parent_parts # <<>> /\ Name(parent_parts) = Rejected THEN TRUE
        ELSE FALSE

\* AzureBaseRepository.list_all_packages
list_all_packages(st) ==
    SelectSeq(list_blobs(st, None), LAMBDA name : ~_skip_blob(PathOf(name)))

\* list_all_package_paths adding the parent of every blob, skipping none
list_all_package_paths_Unfiltered(st) ==
    {StrOf(Parent(PathOf(name))) : name \in DOMAIN st}

\* AzureBaseRepository.list_all_package_paths: the parents, as strings
list_all_package_paths(st) ==
    {StrOf(Parent(PathOf(name))) : name \in {k \in DOMAIN st : ~_skip_blob(PathOf(k))}}

\* the fragment blob of a package
MetadataPath(pkg) == StrOf(WithSuffix(PathOf(pkg), PackageSuffix))

\* check_metadata comparing the last-modified time itself, not its str(), with
\* the tag: a time never equals a string
check_metadata_Unconverted(st, pkg) ==
    LET metadata_path == MetadataPath(pkg)
    IN  IF ~Exists(st, metadata_path) THEN "missing"
        ELSE IF ~Exists(st, pkg) THEN "ResourceNotFoundError"
        ELSE IF ~HasKey(st[metadata_path].meta, METADATA_CHECK_KEY) THEN "untagged"
        ELSE "outdated"

\* check_metadata without its comparison of the tag with the last-modified time
check_metadata_NoCompare(st, pkg) ==
    LET metadata_path == MetadataPath(pkg)
    IN  IF ~Exists(st, metadata_path) THEN "missing"
        ELSE IF ~Exists(st, pkg) THEN "ResourceNotFoundError"
        ELSE IF ~HasKey(st[metadata_path].meta, METADATA_CHECK_KEY) THEN "untagged"
        ELSE "fresh"

\* AzureBaseRepository.check_metadata: which branch is taken
check_metadata(st, pkg) ==
    LET metadata_path == MetadataPath(pkg)
    IN  IF ~Exists(st, metadata_path) THEN "missing"
        ELSE IF ~Exists(st, pkg) THEN "ResourceNotFoundError"
        ELSE IF ~HasKey(st[metadata_path].meta, METADATA_CHECK_KEY) THEN "untagged"
        ELSE IF ToStr(st[pkg].lm) # Get(st[metadata_path].meta, METADATA_CHECK_KEY)
             THEN "outdated"
        ELSE "fresh"

\* create_metadata tagging with the time it saw before it generated the fragment
TagValue_Captured(blob_properties, captured) == ToStr(captured)

\* create_metadata, lines 199-201: the value of the tag, from the properties
\* read after the upload (captured is the package's last-modified when
\* create_metadata began)
TagValue(blob_properties, captured) == ToStr(blob_properties.lm)

\* create_metadata going on whatever createrepo_c returned
GenerateFailed_Ignored(rc) == FALSE

\* create_metadata, line 175
GenerateFailed(rc) == rc # 0

\* move() without its check of the destination
DestinationExists_Unchecked(st, new_path_str) == FALSE

\* RemoteRpmPackage.move, line 217: new_blob_client.exists()
DestinationExists(st, new_path_str) == Exists(st, new_path_str)

\* merge_metadata, lines 219-245: the fragments downloaded for a path
MergeFragments(st, path) ==
    LET parts  == PathOf(path)
        prefix == IF parts # <<>> THEN StrOf(parts) ELSE None
    IN  SelectSeq(list_blobs(st, prefix),
                  LAMBDA name : Suffix(PathOf(name)) = PackageSuffix)

\* every directory's index written into one repodata directory at the root
RepodataBlob_Shared(path, name) == StrOf(Join(Join(<<>>, Repodata), name))

\* path / "repodata" / name, as a blob name
RepodataBlob(path, name) == StrOf(Join(Join(PathOf(path), Repodata), name))

\* merge_metadata, lines 294-301: existing_remote_metadata
ExistingRemoteMetadata(st, path) ==
    LET target_repodata == StrOf(Join(PathOf(path), Repodata))
    IN  {Name(PathOf(name)) : name \in Range(list_blobs(st, target_repodata))}

\* merge_metadata deleting every file it found, not only those it did not write anew
ToDelete_All(existing_remote_metadata, new_metadata) == existing_remote_metadata

\* merge_metadata, line 308
ToDelete(existing_remote_metadata, new_metadata) ==
    existing_remote_metadata \ new_metadata

\* process() with the loop over all_packages left out
PhaseAfter_NoCheck(phase) ==
    CASE phase = "organise" -> "list_paths"
      [] phase = "check"    -> "list_paths"
      [] phase = "merge"    -> "done"

\* process(): what follows each of its three loops
PhaseAfter(phase) ==
    CASE phase = "organise" -> "list_packages"
      [] phase = "check"    -> "list_paths"
      [] phase = "merge"    -> "done"

----------------------------------------------------------------------------
(* Bounds and inputs *)

MaxTouch == 1      \* overwrites of a classified package by a client

Str_cm2 == <<"1", ".", "c", "m", "2">>
Str_cm22 == <<"1", ".", "c", "m", "2", "2">>

Identity(name, version, release, arch) ==
    [name |-> name, version |-> version, release |-> release, arch |-> arch]

\* the packages clients upload: two whose buckets are cm/2 and cm/22, one
\* without a distribution tag
PkgA == Identity(<<"a">>, <<"1">>, Str_cm2, <<"x">>)
PkgB == Identity(<<"b">>, <<"1">>, Str_cm22, <<"x">>)
PkgR == Identity(<<"r">>, <<"1">>, <<"1">>, <<"x">>)

\* the strings of length at most n over the characters of Cs
RECURSIVE StringsUpTo(_, _)
StringsUpTo(Cs, n) ==
    IF n = 0 THEN {<<>>}
    ELSE LET S == StringsUpTo(Cs, n - 1)
         IN  S \cup {Append(s, c) : s \in {t \in S : Len(t) = n - 1}, c \in Cs}

MaxRelease == 6    \* length of a release string handed to get_path

\* the packages handed to get_path: every release over a digit, a letter, the
\* dot and the newline, in a file uploaded under a name of the client's choice
PathArgs ==
    { [path |-> <<"0">> \o RpmSuffix, name |-> <<"a">>, version |-> <<"1">>,
       release |-> rel, arch |-> <<"x">>] : rel \in StringsUpTo({"1", "c", ".", NL}, MaxRelease) }

\* the uploads clients make: a package under the file name get_path gives it,
\* and package A also under another name, one that is listed before the others
UploadChoices ==
    { [id |-> PkgA, name |-> Filename(PkgA)],
      [id |-> PkgA, name |-> <<"0">> \o RpmSuffix],
      [id |-> PkgB, name |-> Filename(PkgB)],
      [id |-> PkgR, name |-> Filename(PkgR)] }

\* what the merge tool can write into its output repodata: one file alone, or
\* that file and a second one
Outputs == { {<<"m">>}, {<<"m">>, <<"p">>} }

Runners == {1}

----------------------------------------------------------------------------
(* process(): one run's position and locals. The fields after error are     *)
(* history: what the run has done so far.                                   *)

NoBlob == Blob("none", 0, {})

IdleProc ==
    [ pc            |-> "idle",
      uploads       |-> <<>>,    \* organise(): the uploads still to relocate
      package       |-> None,    \* the package being relocated or regenerated
      dest          |-> None,    \* move(): new_path_str
      all_packages  |-> <<>>,    \* process(): the packages still to check
      paths         |-> {},      \* process(): the paths still to merge
      path          |-> None,    \* merge_metadata(path)
      downloaded    |-> <<>>,    \* merge_metadata: downloaded_metadata
      new_metadata  |-> {},      \* merge_metadata: new_metadata
      to_upload     |-> {},      \* merge_metadata: files of the output still to upload
      to_delete     |-> {},      \* merge_metadata: to_delete, still to delete
      blob_properties |-> NoBlob, \* create_metadata: the package's properties
      error         |-> "none",  \* the exception process() raised
      listed        |-> {},      \* uploads list_uploads returned
      organised     |-> {},      \* uploads organise() has handled (moved or skipped)
      skipped       |-> {},      \* uploads skipped on FileExistsError
      packages      |-> {},      \* packages list_all_packages returned
      checked       |-> {},      \* packages check_metadata was called on
      created       |-> <<>>,    \* packages create_metadata was called on, in order
      captured      |-> 0,       \* the package's last-modified when create_metadata began
      generator_rc  |-> 0,       \* what createrepo_c last returned
      tagged        |-> None,    \* the package whose fragment was last tagged
      merged        |-> {},      \* paths merge_metadata was called on
      existing      |-> {},      \* file names under path/repodata when the merge listed them
      uploaded      |-> {},      \* file names this merge has uploaded
      deleted       |-> {},      \* file names this merge has deleted
      upload_after_delete |-> FALSE, \* this merge uploaded a file after deleting one
      completed     |-> None,    \* the path whose merge has just returned
      merge_outcome |-> "none",  \* what extraction and the merge tool did in the merge in progress
      muts          |-> {},      \* storage writes of this run: <<operation, blob name>>
      second        |-> FALSE,   \* the run before returned and no client wrote since it returned
      second_strict |-> FALSE ]  \* ... and no client wrote since it began

\* the local organiser before organise() is called. Path.rename onto an
\* existing file replaces it on a POSIX platform and raises FileExistsError on
\* Windows.
IdleLocal(platform) ==
    [ pc       |-> "idle",
      platform |-> platform,
      uploads  |-> <<>>,     \* organise(): the packages still to relocate
      error    |-> "none",   \* the exception organise() raised
      moved    |-> {},       \* the uploads relocated so far
      hit      |-> None,     \* the first destination found occupied
      held     |-> NoBlob ]  \* the file that lay there

\* a RemoteRpmPackage that has not been constructed. The fields after
\* local_package are history.
IdleHandle ==
    [ pc            |-> "none",   \* "ready", or the step of move() it is at
      path          |-> None,     \* self.path, as a blob name
      local_package |-> None,     \* self.local_package: the PackageInfo it holds
      downloads     |-> 0,        \* download_blob() calls that returned the blob
      calls         |-> 0,        \* calls made on the handle
      returned      |-> None,     \* the accessor called last and what it returned
      error         |-> "none",   \* the exception the last call raised
      old_path      |-> None,     \* move(): old_path
      new_path      |-> None,     \* move(): new_path_str
      before        |-> <<>>,     \* the container when move() was last called
      outcome       |-> "none" ]  \* how the last move() ended

Init ==
    /\ store = <<>>
    /\ writes = <<>>
    /\ proc = [r \in Runners |-> IdleProc]
    /\ upload_directory = DefaultUploadDirectory
    /\ policy \in {"distribution", "flat"}
    /\ started = FALSE
    /\ nTouch = 0
    /\ envSinceStart = FALSE
    /\ envSinceEnd = FALSE
    /\ arg = Identity(<<>>, <<>>, <<>>, <<>>)
    /\ result = None
    /\ info = None
    /\ again = None
    /\ local = IdleLocal("posix")
    /\ handle = IdleHandle

Active == DOMAIN proc

Busy(r) == proc[r].pc \notin {"idle", "done", "raised"}

Step(r, rec) == proc' = [proc EXCEPT ![r] = rec]

\* an exception leaves process(): the run is over
Raise(r, e) == Step(r, [proc[r] EXCEPT !.pc = "raised", !.error = e])

Config == <<upload_directory, policy, arg, result, info, again, local, handle>>
Env == <<nTouch, envSinceStart, envSinceEnd>>

----------------------------------------------------------------------------
(* Clients of the container *)

\* a client uploads a package into the upload directory; the uploads come
\* first and the runs they trigger follow
ClientUpload(u) ==
    /\ u \in UploadChoices
    /\ ~started
    /\ StrOf(Join(Join(Root, upload_directory), u.name)) \notin DOMAIN store
    /\ LET k == StrOf(Join(Join(Root, upload_directory), u.name))
       IN  store' = Put(store, k, Blob(RpmContent(u.id), 0, {}))
    /\ envSinceStart' = TRUE
    /\ envSinceEnd' = TRUE
    /\ UNCHANGED <<writes, proc, started, nTouch, Config>>

\* a run reads last-modified times only in its loop over all_packages: between
\* two packages of the loop any package may be overwritten, inside
\* create_metadata(k) package k (the overwrite of another package then has
\* the effect it has at the loop's next turn)
Checking(r, k) ==
    \/ proc[r].pc = "check"
    \/ /\ proc[r].pc \in {"create_generate", "create_upload", "create_props", "create_tag"}
       /\ proc[r].package = k

\* a client overwrites a classified package in place: its last-modified changes.
\* Taken between runs and while a run is in its loop over all_packages.
ClientTouch(k) ==
    /\ nTouch < MaxTouch
    /\ k \in DOMAIN store
    /\ \/ \A r \in Active : ~Busy(r)
       \/ \E r \in Active : Checking(r, k)
    /\ ~_skip_blob(PathOf(k))
    /\ store' = [store EXCEPT ![k].lm = Written(writes, k) + 1]
    /\ writes' = CountWrite(writes, k)
    /\ nTouch' = nTouch + 1
    /\ envSinceStart' = TRUE
    /\ envSinceEnd' = TRUE
    /\ UNCHANGED <<proc, started, Config>>

----------------------------------------------------------------------------
(* process(), lines 40-56, step by step. Every step is one call on the      *)
(* container (or one run of an external tool) with the local work around it. *)

\* process() is called
Start(r) ==
    /\ ~Busy(r)
    /\ started' = TRUE
    /\ Step(r, [IdleProc EXCEPT
                  !.pc = "list_uploads",
                  !.second = (proc[r].pc = "done" /\ ~envSinceEnd),
                  !.second_strict = (proc[r].pc = "done" /\ ~envSinceStart)])
    /\ envSinceStart' = FALSE
    /\ envSinceEnd' = FALSE
    /\ UNCHANGED <<store, writes, nTouch, Config>>

\* organise(): self.list_uploads()
ListUploads(r) ==
    /\ proc[r].pc = "list_uploads"
    /\ LET ups == list_uploads(store, upload_directory)
       IN  Step(r, [proc[r] EXCEPT !.pc = "organise", !.uploads = ups,
                                   !.listed = Range(ups)])
    /\ UNCHANGED <<store, writes, started, Env, Config>>

\* organise(): the next upload: get_path (which downloads the package and reads
\* its header), then move() up to its check that the destination is free
Organise(r) ==
    /\ proc[r].pc = "organise"
    /\ LET p == proc[r] IN
       IF p.uploads = <<>>
       THEN Step(r, [p EXCEPT !.pc = PhaseAfter("organise")])
       ELSE LET package == Head(p.uploads) IN
            IF ~Exists(store, package)
            THEN Raise(r, "ResourceNotFoundError")
            ELSE IF ~Parses(store[package])
            THEN \* get_path: package.name() downloads the blob and rpmfile raises
                 Raise(r, "RPMError")
            ELSE LET path == StrOf(get_path(policy, Root, store[package].content.id)) IN
                 IF DestinationExists(store, path)
                 THEN \* FileExistsError, caught by organise(): logged, next upload
                      Step(r, [p EXCEPT !.uploads = Tail(p.uploads),
                                        !.organised = @ \cup {package},
                                        !.skipped = @ \cup {package}])
                 ELSE Step(r, [p EXCEPT !.pc = "move_copy", !.package = package,
                                        !.dest = path])
    /\ UNCHANGED <<store, writes, started, Env, Config>>

\* move(): new_blob_client.start_copy_from_url(blob_client.url)
MoveCopy(r) ==
    /\ proc[r].pc = "move_copy"
    /\ LET p == proc[r] IN
       IF ~Exists(store, p.package)
       THEN /\ Raise(r, "ResourceNotFoundError")
            /\ UNCHANGED <<store, writes>>
       ELSE /\ store' = Put(store, p.dest,
                            Blob(store[p.package].content, Written(writes, p.dest) + 1,
                                 store[p.package].meta))
            /\ writes' = CountWrite(writes, p.dest)
            /\ Step(r, [p EXCEPT !.pc = "move_delete",
                                 !.muts = @ \cup {<<"copy", p.dest>>}])
    /\ UNCHANGED <<started, Env, Config>>

\* move(): blob_client.delete_blob(), and back to organise()'s loop
MoveDelete(r) ==
    /\ proc[r].pc = "move_delete"
    /\ LET p == proc[r] IN
       IF ~Exists(store, p.package)
       THEN /\ Raise(r, "ResourceNotFoundError")
            /\ UNCHANGED store
       ELSE /\ store' = Delete(store, p.package)
            /\ Step(r, [p EXCEPT !.pc = "organise", !.uploads = Tail(p.uploads),
                                 !.organised = @ \cup {p.package},
                                 !.package = None, !.dest = None,
                                 !.muts = @ \cup {<<"delete", p.package>>}])
    /\ UNCHANGED <<writes, started, Env, Config>>

\* process(): all_packages = self.list_all_packages()
ListPackages(r) ==
    /\ proc[r].pc = "list_packages"
    /\ LET all == list_all_packages(store)
       IN  Step(r, [proc[r] EXCEPT !.pc = "check", !.all_packages = all,
                                   !.packages = Range(all)])
    /\ UNCHANGED <<store, writes, started, Env, Config>>

\* process(): the next package: check_metadata(package)
CheckMetadata(r) ==
    /\ proc[r].pc = "check"
    /\ LET p == proc[r] IN
       IF p.all_packages = <<>>
       THEN Step(r, [p EXCEPT !.pc = PhaseAfter("check")])
       ELSE LET package == Head(p.all_packages)
                verdict == check_metadata(store, package)
                q       == [p EXCEPT !.checked = @ \cup {package}]
            IN  IF verdict = "ResourceNotFoundError"
                THEN Step(r, [q EXCEPT !.pc = "raised", !.error = verdict])
                ELSE IF verdict = "fresh"
                THEN Step(r, [q EXCEPT !.all_packages = Tail(p.all_packages)])
                ELSE \* self.create_metadata(package)
                     Step(r, [q EXCEPT !.pc = "create_generate", !.package = package,
                                       !.created = Append(@, package),
                                       !.captured = IF Exists(store, package)
                                                    THEN store[package].lm ELSE 0])
    /\ UNCHANGED <<store, writes, started, Env, Config>>

\* create_metadata: copy_local (the download), then createrepo_c, whose result is rc
CreateGenerate(r, rc) ==
    /\ proc[r].pc = "create_generate"
    /\ LET p == proc[r] IN
       IF ~Exists(store, p.package)
       THEN Raise(r, "ResourceNotFoundError")
       ELSE IF ~Parses(store[p.package])
       THEN \* copy_local: _get_package builds a LocalRpmPackage and rpmfile raises
            Raise(r, "RPMError")
       ELSE IF GenerateFailed(rc)
       THEN Step(r, [p EXCEPT !.pc = "raised", !.error = "RuntimeError",
                              !.generator_rc = rc])
       ELSE Step(r, [p EXCEPT !.pc = "create_upload", !.generator_rc = rc])
    /\ UNCHANGED <<store, writes, started, Env, Config>>

\* create_metadata: metadata_blob_client.upload_blob(f, overwrite=True)
CreateUpload(r) ==
    /\ proc[r].pc = "create_upload"
    /\ LET p == proc[r]
           metadata_path == MetadataPath(p.package)
       IN  /\ store' = Put(store, metadata_path, Blob(FragmentContent(p.package), 0, {}))
           /\ Step(r, [p EXCEPT !.pc = "create_props",
                                !.muts = @ \cup {<<"put", metadata_path>>}])
    /\ UNCHANGED <<writes, started, Env, Config>>

\* create_metadata: blob_client.get_blob_properties() of the package
CreateProps(r) ==
    /\ proc[r].pc = "create_props"
    /\ LET p == proc[r] IN
       IF ~Exists(store, p.package)
       THEN Raise(r, "ResourceNotFoundError")
       ELSE Step(r, [p EXCEPT !.pc = "create_tag", !.blob_properties = store[p.package]])
    /\ UNCHANGED <<store, writes, started, Env, Config>>

\* create_metadata: set_blob_metadata of the fragment, and back to process()'s
\* loop. The call reaches the service (ok) or fails; of all the calls this is
\* the one whose failure leaves a blob that the program then reads
\* differently: a fragment without its tag.
CreateTag(r, ok) ==
    /\ proc[r].pc = "create_tag"
    /\ LET p == proc[r]
           metadata_path == MetadataPath(p.package)
       IN  IF ~ok
           THEN /\ Raise(r, "ServiceRequestError")
                /\ UNCHANGED store
           ELSE IF ~Exists(store, metadata_path)
           THEN /\ Raise(r, "ResourceNotFoundError")
                /\ UNCHANGED store
           ELSE /\ store' = [store EXCEPT ![metadata_path].meta =
                               {<<METADATA_CHECK_KEY, TagValue(p.blob_properties, p.captured)>>}]
                /\ Step(r, [p EXCEPT !.pc = "check", !.all_packages = Tail(p.all_packages),
                                     !.package = None, !.blob_properties = NoBlob,
                                     !.tagged = p.package,
                                     !.muts = @ \cup {<<"tag", metadata_path>>}])
    /\ UNCHANGED <<writes, started, Env, Config>>

\* process(): paths = self.list_all_package_paths()
ListPaths(r) ==
    /\ proc[r].pc = "list_paths"
    /\ Step(r, [proc[r] EXCEPT !.pc = "merge", !.paths = list_all_package_paths(store)])
    /\ UNCHANGED <<store, writes, started, Env, Config>>

\* process() returns
Return(r) ==
    /\ proc[r].pc = "merge"
    /\ proc[r].paths = {}
    /\ Step(r, [proc[r] EXCEPT !.pc = PhaseAfter("merge")])
    /\ envSinceEnd' = FALSE
    /\ UNCHANGED <<store, writes, started, nTouch, envSinceStart, Config>>

\* process(): merge_metadata(path) for some path of the set, up to the
\* download of its fragments
MergeCollect(r, path) ==
    /\ proc[r].pc = "merge"
    /\ path \in proc[r].paths
    /\ Step(r, [proc[r] EXCEPT !.pc = "merge_run", !.path = path,
                               !.paths = @ \ {path},
                               !.merged = @ \cup {path},
                               !.downloaded = MergeFragments(store, path),
                               !.existing = {}, !.uploaded = {}, !.deleted = {},
                               !.upload_after_delete = FALSE,
                               !.completed = None])
    /\ UNCHANGED <<store, writes, started, Env, Config>>

\* the file names of the blobs lying in the directory path/repodata
Published(st, path) ==
    LET target_repodata == Join(PathOf(path), Repodata)
    IN  {Name(PathOf(k)) : k \in {x \in DOMAIN st : Parent(PathOf(x)) = target_repodata}}

\* merge_metadata going on when the merge tool left no output repodata
MergeError_OutputUnchecked(outcome) ==
    IF outcome = "no_extract" THEN "FileNotFoundError"
    ELSE IF outcome = "rc" THEN "RuntimeError"
    ELSE "none"

\* merge_metadata, lines 250-289: the exception it raises when a fragment
\* extracts without a repodata directory, when mergerepo_c returns non-zero,
\* or when the output repodata directory is missing
MergeError(outcome) ==
    IF outcome = "no_extract" THEN "FileNotFoundError"
    ELSE IF outcome = "rc" THEN "RuntimeError"
    ELSE IF outcome = "no_repodata" THEN "FileNotFoundError"
    ELSE "none"

\* what extraction and mergerepo_c can do
MergeOutcomes == {"ok", "no_extract", "rc", "no_repodata"}

\* merge_metadata: extraction of the fragments and mergerepo_c over them
\* (outcome is what they did, output the files the tool wrote), then the
\* listing of path/repodata
MergeRun(r, outcome, output) ==
    /\ proc[r].pc = "merge_run"
    /\ outcome = "no_extract" => proc[r].downloaded # <<>>
    /\ LET p == proc[r]
           e == MergeError(outcome)
       IN
       IF e # "none"
       THEN Step(r, [p EXCEPT !.pc = "raised", !.error = e, !.merge_outcome = outcome])
       ELSE LET existing_remote_metadata == ExistingRemoteMetadata(store, p.path)
            IN  Step(r, [p EXCEPT !.pc = "merge_upload",
                                  !.merge_outcome = outcome,
                                  !.new_metadata = output,
                                  !.to_upload = output,
                                  !.to_delete = ToDelete(existing_remote_metadata, output),
                                  !.existing = Published(store, p.path)])
    /\ UNCHANGED <<store, writes, started, Env, Config>>

\* merge_metadata: upload_blob(g, overwrite=True) of one file of the output;
\* the call stores the blob, or fails with the storage service's error, which
\* nothing catches
MergeUpload(r, file, ok) ==
    /\ proc[r].pc = "merge_upload"
    /\ file \in proc[r].to_upload
    /\ LET p == proc[r]
           target_path == RepodataBlob(p.path, file)
       IN  IF ~ok
           THEN /\ Raise(r, "HttpResponseError")
                /\ UNCHANGED store
           ELSE
           /\ store' = Put(store, target_path, Blob(IndexContent(Range(p.downloaded)), 0, {}))
           /\ Step(r, [p EXCEPT !.pc = IF p.to_upload = {file}
                                       THEN "merge_delete" ELSE "merge_upload",
                                !.to_upload = @ \ {file},
                                !.uploaded = @ \cup {file},
                                !.upload_after_delete = (@ \/ p.deleted # {}),
                                !.muts = @ \cup {<<"put", target_path>>}])
    /\ UNCHANGED <<writes, started, Env, Config>>

\* merge_metadata: delete_blob() of one file of to_delete; the call deletes
\* the blob, or fails with the storage service's error
MergeDelete(r, file, ok) ==
    /\ proc[r].pc = "merge_delete"
    /\ file \in proc[r].to_delete
    /\ LET p == proc[r]
           delete_path == RepodataBlob(p.path, file)
       IN  IF ~Exists(store, delete_path)
           THEN /\ Raise(r, "ResourceNotFoundError")
                /\ UNCHANGED store
           ELSE IF ~ok
           THEN /\ Raise(r, "HttpResponseError")
                /\ UNCHANGED store
           ELSE /\ store' = Delete(store, delete_path)
                /\ Step(r, [p EXCEPT !.to_delete = @ \ {file},
                                     !.deleted = @ \cup {file},
                                     !.muts = @ \cup {<<"delete", delete_path>>}])
    /\ UNCHANGED <<writes, started, Env, Config>>

\* merge_metadata returns: back to process()'s loop over the paths
MergeReturn(r) ==
    /\ proc[r].pc = "merge_delete"
    /\ proc[r].to_delete = {}
    /\ Step(r, [proc[r] EXCEPT !.pc = "merge", !.completed = proc[r].path,
                               !.path = None, !.downloaded = <<>>,
                               !.merge_outcome = "none"])
    /\ UNCHANGED <<store, writes, started, Env, Config>>

Next ==
    \/ \E u \in UploadChoices : ClientUpload(u)
    \/ \E k \in DOMAIN store : ClientTouch(k)
    \/ \E r \in Active : Start(r)
    \/ \E r \in Active : ListUploads(r)
    \/ \E r \in Active : Organise(r)
    \/ \E r \in Active : MoveCopy(r)
    \/ \E r \in Active : MoveDelete(r)
    \/ \E r \in Active : ListPackages(r)
    \/ \E r \in Active : CheckMetadata(r)
    \/ \E r \in Active : \E rc \in {0, 1} : CreateGenerate(r, rc)
    \/ \E r \in Active : CreateUpload(r)
    \/ \E r \in Active : CreateProps(r)
    \/ \E r \in Active : \E ok \in BOOLEAN : CreateTag(r, ok)
    \/ \E r \in Active : ListPaths(r)
    \/ \E r \in Active : \E path \in proc[r].paths : MergeCollect(r, path)
    \/ \E r \in Active : \E outcome \in MergeOutcomes :
          \E output \in Outputs : MergeRun(r, outcome, output)
    \/ \E r \in Active : \E file \in proc[r].to_upload : MergeUpload(r, file, TRUE)
    \/ \E r \in Active : \E file \in proc[r].to_delete : MergeDelete(r, file, TRUE)
    \/ \E r \in Active : MergeReturn(r)
    \/ \E r \in Active : Return(r)

Spec == Init /\ [][Next]_vars

\* one step of run r of process()
Run(r) ==
    \/ Start(r)
    \/ ListUploads(r)
    \/ Organise(r)
    \/ MoveCopy(r)
    \/ MoveDelete(r)
    \/ ListPackages(r)
    \/ CheckMetadata(r)
    \/ \E rc \in {0, 1} : CreateGenerate(r, rc)
    \/ CreateUpload(r)
    \/ CreateProps(r)
    \/ \E ok \in BOOLEAN : CreateTag(r, ok)
    \/ ListPaths(r)
    \/ \E path \in proc[r].paths : MergeCollect(r, path)
    \/ \E outcome \in MergeOutcomes : \E output \in Outputs : MergeRun(r, outcome, output)
    \/ \E file \in proc[r].to_upload : MergeUpload(r, file, TRUE)
    \/ \E file \in proc[r].to_delete : MergeDelete(r, file, TRUE)
    \/ MergeReturn(r)
    \/ Return(r)

\* process() over a container that holds, in the upload directory or in a
\* bucket, .rpm blobs whose header cannot be read
BadUploads ==
    { [name |-> <<"u", "p", "l", "o", "a", "d", "/", "0", ".", "r", "p", "m">>,
       content |-> BadContent],
      [name |-> StrOf(Join(Join(Root, DefaultUploadDirectory), Filename(PkgA))),
       content |-> RpmContent(PkgA)],
      [name |-> StrOf(Join(Join(Root, DefaultUploadDirectory), Filename(PkgB))),
       content |-> RpmContent(PkgB)],
      [name |-> <<"c", "m", "/", "2", "/", "z", ".", "r", "p", "m">>,
       content |-> BadContent] }

MalformedInit ==
    /\ \E S \in SUBSET BadUploads :
          store = [k \in {u.name : u \in S} |->
                     Blob((CHOOSE u \in S : u.name = k).content, 0, {})]
    /\ writes = <<>>
    /\ proc = [r \in Runners |-> IdleProc]
    /\ upload_directory = DefaultUploadDirectory
    /\ policy = "distribution"
    /\ started = FALSE
    /\ nTouch = 0
    /\ envSinceStart = FALSE
    /\ envSinceEnd = FALSE
    /\ arg = Identity(<<>>, <<>>, <<>>, <<>>)
    /\ result = None
    /\ info = None
    /\ again = None
    /\ local = IdleLocal("posix")
    /\ handle = IdleHandle

MalformedNext == \E r \in Active : Run(r)

MalformedSpec == MalformedInit /\ [][MalformedNext]_vars

\* process() over a storage service whose upload_blob and delete_blob calls in
\* merge_metadata can fail part-way through a reconciliation
StorageFault(r) ==
    \/ \E file \in proc[r].to_upload : MergeUpload(r, file, FALSE)
    \/ \E file \in proc[r].to_delete : MergeDelete(r, file, FALSE)

FaultNext ==
    \/ Next
    \/ \E r \in Active : StorageFault(r)

FaultSpec == Init /\ [][FaultNext]_vars

----------------------------------------------------------------------------
(* Two overlapping runs of process() on one container: the function is      *)
(* triggered again while a run is still going on. Each run is called once.  *)

RaceRunners == {1, 2}

\* the merge tool names its files after their content: the two runs can write
\* different sets of files
RaceOutputs == { {<<"m">>, <<"p">>}, {<<"m">>, <<"q">>} }

RaceUpload == StrOf(Join(Join(Root, DefaultUploadDirectory), Filename(PkgA)))
RacePackage == StrOf(DistributionGetPath(Root, PkgA))
RaceDirectory == StrOf(Parent(PathOf(RacePackage)))

\* the container when the runs begin: one package waiting in the upload
\* directory, or that package as an earlier run left it, classified, with its
\* fragment and the index {m, p} published
RaceStores ==
    { [store  |-> [k \in {RaceUpload} |-> Blob(RpmContent(PkgA), 0, {})],
       writes |-> <<>>],
      [store  |-> [k \in {RacePackage, MetadataPath(RacePackage),
                          RepodataBlob(RaceDirectory, <<"m">>),
                          RepodataBlob(RaceDirectory, <<"p">>)} |->
                      IF k = RacePackage THEN Blob(RpmContent(PkgA), 1, {})
                      ELSE IF k = MetadataPath(RacePackage)
                      THEN Blob(FragmentContent(RacePackage), 0,
                                {<<METADATA_CHECK_KEY, ToStr(1)>>})
                      ELSE Blob(IndexContent({MetadataPath(RacePackage)}), 0, {})],
       writes |-> [k \in {RacePackage} |-> 1]] }

RaceInit ==
    /\ \E s \in RaceStores : store = s.store /\ writes = s.writes
    /\ proc = [r \in RaceRunners |-> IdleProc]
    /\ upload_directory = DefaultUploadDirectory
    /\ policy = "distribution"
    /\ started = FALSE
    /\ nTouch = 0
    /\ envSinceStart = FALSE
    /\ envSinceEnd = FALSE
    /\ arg = Identity(<<>>, <<>>, <<>>, <<>>)
    /\ result = None
    /\ info = None
    /\ again = None
    /\ local = IdleLocal("posix")
    /\ handle = IdleHandle

RaceNext ==
    \/ \E r \in Active : proc[r].pc = "idle" /\ Start(r)
    \/ \E r \in Active : ListUploads(r)
    \/ \E r \in Active : Organise(r)
    \/ \E r \in Active : MoveCopy(r)
    \/ \E r \in Active : MoveDelete(r)
    \/ \E r \in Active : ListPackages(r)
    \/ \E r \in Active : CheckMetadata(r)
    \/ \E r \in Active : \E rc \in {0, 1} : CreateGenerate(r, rc)
    \/ \E r \in Active : CreateUpload(r)
    \/ \E r \in Active : CreateProps(r)
    \/ \E r \in Active : \E ok \in BOOLEAN : CreateTag(r, ok)
    \/ \E r \in Active : ListPaths(r)
    \/ \E r \in Active : \E path \in proc[r].paths : MergeCollect(r, path)
    \/ \E r \in Active : \E outcome \in MergeOutcomes : \E output \in RaceOutputs :
          MergeRun(r, outcome, output)
    \/ \E r \in Active : \E file \in proc[r].to_upload : MergeUpload(r, file, TRUE)
    \/ \E r \in Active : \E file \in proc[r].to_delete : MergeDelete(r, file, TRUE)
    \/ \E r \in Active : MergeReturn(r)
    \/ \E r \in Active : Return(r)

RaceSpec == RaceInit /\ [][RaceNext]_vars

----------------------------------------------------------------------------
(* process() of a repository whose upload directory is configured: the       *)
(* function app passes UPLOAD_DIRECTORY to the repository it constructs.     *)

ConfiguredUploadDirectory == <<"i", "n">>

ConfigInit ==
    /\ store = <<>>
    /\ writes = <<>>
    /\ proc = [r \in Runners |-> IdleProc]
    /\ upload_directory = ConfiguredUploadDirectory
    /\ policy = "distribution"
    /\ started = FALSE
    /\ nTouch = 0
    /\ envSinceStart = FALSE
    /\ envSinceEnd = FALSE
    /\ arg = Identity(<<>>, <<>>, <<>>, <<>>)
    /\ result = None
    /\ info = None
    /\ again = None
    /\ local = IdleLocal("posix")
    /\ handle = IdleHandle

ConfigNext ==
    \/ \E u \in UploadChoices : ClientUpload(u)
    \/ \E r \in Active : Run(r)

ConfigSpec == ConfigInit /\ [][ConfigNext]_vars

----------------------------------------------------------------------------
(* process() of a distribution repository whose clients also remove          *)
(* packages: between two runs a client deletes the blob of a classified      *)
(* package.                                                                  *)

ClientRemove(k) ==
    /\ started
    /\ \A r \in Active : ~Busy(r)
    /\ k \in DOMAIN store
    /\ ~_skip_blob(PathOf(k))
    /\ store' = Delete(store, k)
    /\ envSinceStart' = TRUE
    /\ envSinceEnd' = TRUE
    /\ UNCHANGED <<writes, proc, started, nTouch, Config>>

RemoveNext ==
    \/ \E u \in UploadChoices : ClientUpload(u)
    \/ \E k \in DOMAIN store : ClientRemove(k)
    \/ \E r \in Active : Run(r)

RemoveInit == Init /\ policy = "distribution"

RemoveSpec == RemoveInit /\ [][RemoveNext]_vars

----------------------------------------------------------------------------
(* get_path on its own: an organiser of either policy is handed a package *)

PathInit ==
    /\ store = <<>>
    /\ writes = <<>>
    /\ proc = [r \in Runners |-> IdleProc]
    /\ upload_directory = DefaultUploadDirectory
    /\ policy \in {"distribution", "flat"}
    /\ started = FALSE
    /\ nTouch = 0
    /\ envSinceStart = FALSE
    /\ envSinceEnd = FALSE
    /\ arg \in PathArgs
    /\ result = None
    /\ info = None
    /\ again = None
    /\ local = IdleLocal("posix")
    /\ handle = IdleHandle

\* LocalRpmPackage(path): the identity is read from the headers of the file
PackageInfo ==
    /\ info = None
    /\ info' = _package_info(arg)
    /\ UNCHANGED <<store, writes, proc, upload_directory, policy, started, Env, arg,
                   result, again, local, handle>>

\* organiser.get_path(package)
GetPath ==
    /\ result = None
    /\ result' = get_path(policy, Root, arg)
    /\ UNCHANGED <<store, writes, proc, upload_directory, policy, started, Env, arg,
                   info, again, local, handle>>

\* organiser.get_path(other), other a package of the same identity in a file
\* of another name
GetPathAgain ==
    /\ result # None
    /\ again = None
    /\ again' = get_path(policy, Root, [arg EXCEPT !.path = <<"1">> \o RpmSuffix])
    /\ UNCHANGED <<store, writes, proc, upload_directory, policy, started, Env, arg,
                   info, result, local, handle>>

PathNext ==
    \/ PackageInfo
    \/ GetPath
    \/ GetPathAgain

PathSpec == PathInit /\ [][PathNext]_vars

----------------------------------------------------------------------------
(* The local organiser: DistributionOrganiser and FlatOrganiser over a       *)
(* directory tree. store holds the files under root, by their relative path. *)

\* a file in the upload directory; two builds of one package differ in bytes
LocalFile(u) == Blob([kind |-> "rpm", id |-> u.id, build |-> u.name], 0, {})

UploadKey(u) == StrOf(Join(Join(Root, DefaultUploadDirectory), u.name))

LocalTree(U) == [k \in {UploadKey(u) : u \in U} |-> LocalFile(CHOOSE u \in U : UploadKey(u) = k)]

\* the orders in which the files of S can be listed
Orderings(S) ==
    {o \in [1..Cardinality(S) -> S] : \A i, j \in 1..Cardinality(S) : o[i] = o[j] => i = j}

\* LocalOrganiserMixin.list_uploads: self.upload_directory.glob("*.rpm")
LocalUploads(st, updir) ==
    {k \in DOMAIN st : /\ Parent(PathOf(k)) = Join(Root, updir)
                       /\ Len(Name(PathOf(k))) >= 4
                       /\ SubSeq(Name(PathOf(k)), Len(Name(PathOf(k))) - 3,
                                 Len(Name(PathOf(k)))) = RpmSuffix}

\* LocalRpmPackage.move: what self.path.rename(new_path) does to the tree
Rename(st, old_path, new_path) ==
    Delete(Put(st, new_path, st[old_path]), old_path)

LocalInit ==
    /\ \E U \in SUBSET UploadChoices : store = LocalTree(U)
    /\ writes = <<>>
    /\ proc = [r \in Runners |-> IdleProc]
    /\ upload_directory = DefaultUploadDirectory
    /\ policy \in {"distribution", "flat"}
    /\ started = FALSE
    /\ nTouch = 0
    /\ envSinceStart = FALSE
    /\ envSinceEnd = FALSE
    /\ arg = Identity(<<>>, <<>>, <<>>, <<>>)
    /\ result = None
    /\ info = None
    /\ again = None
    /\ \E platform \in {"posix", "windows"} : local = IdleLocal(platform)
    /\ handle = IdleHandle

LocalFrame ==
    UNCHANGED <<writes, proc, upload_directory, policy, started, Env, arg, result,
                info, again, handle>>

\* organise(): self.list_uploads(), in the order the directory gives its entries
LocalListUploads(order) ==
    /\ local.pc = "idle"
    /\ order \in Orderings(LocalUploads(store, upload_directory))
    /\ local' = [local EXCEPT !.pc = "organise", !.uploads = order]
    /\ UNCHANGED store
    /\ LocalFrame

\* organise(): the next package: get_path, mkdir of the parents, move
LocalOrganise ==
    /\ local.pc = "organise"
    /\ local.uploads # <<>>
    /\ LET package == Head(local.uploads)
           path    == StrOf(get_path(policy, Root, store[package].content.id))
           seen    == IF Exists(store, path) /\ local.hit = None
                      THEN [local EXCEPT !.hit = path, !.held = store[path]]
                      ELSE local
       IN  IF Exists(store, path) /\ local.platform = "windows"
           THEN /\ local' = [seen EXCEPT !.pc = "raised", !.error = "FileExistsError"]
                /\ UNCHANGED store
           ELSE /\ store' = Rename(store, package, path)
                /\ local' = [seen EXCEPT !.uploads = Tail(local.uploads),
                                         !.moved = @ \cup {package}]
    /\ LocalFrame

\* organise() returns
LocalReturn ==
    /\ local.pc = "organise"
    /\ local.uploads = <<>>
    /\ local' = [local EXCEPT !.pc = "done"]
    /\ UNCHANGED store
    /\ LocalFrame

LocalNext ==
    \/ \E order \in Orderings(LocalUploads(store, upload_directory)) : LocalListUploads(order)
    \/ LocalOrganise
    \/ LocalReturn

LocalSpec == LocalInit /\ [][LocalNext]_vars

----------------------------------------------------------------------------
(* One RemoteRpmPackage: a handle on a blob of the upload directory, on     *)
(* which a caller makes a few calls one after the other.                    *)

MaxCalls == 3      \* calls made on the handle

\* the five identity accessors
Accessors == {"name", "version", "dist", "arch", "release"}

\* the blob the handle is created on, and the paths move() is called with
HandleSource == <<"u", "p", "l", "o", "a", "d", "/", "0", ".", "r", "p", "m">>
MoveTargets ==
    { StrOf(get_path("distribution", Root, PkgA)),
      <<"r", "e", "j", "e", "c", "t", "e", "d", "/", "0", ".", "r", "p", "m">> }

\* _get_package downloading whether or not it holds a local package
NeedsDownload_Always(local_package) == TRUE

\* _get_package, line 166: self.local_package is None
NeedsDownload(local_package) == local_package = None

\* _get_package: the handle after the call, with the exception it raised in error
GetPackage(h, st) ==
    IF ~NeedsDownload(h.local_package) THEN [h EXCEPT !.error = "none"]
    ELSE IF ~Exists(st, h.path) THEN [h EXCEPT !.error = "ResourceNotFoundError"]
    ELSE IF ~Parses(st[h.path])
    THEN [h EXCEPT !.downloads = @ + 1, !.error = "RPMError"]
    ELSE [h EXCEPT !.downloads = @ + 1, !.error = "none",
                   !.local_package = _package_info(st[h.path].content.id)]

\* move() leaving self.path as it was
PathAfterMove_Kept(old_path, new_path_str) == old_path

\* move(), line 227: self.path = Path(new_path_str)
PathAfterMove(old_path, new_path_str) == new_path_str

HandleInit ==
    /\ \E content \in {RpmContent(PkgA), BadContent} : \E occupied \in BOOLEAN :
          store = [k \in {HandleSource} \cup
                         (IF occupied THEN {StrOf(get_path("distribution", Root, PkgA))} ELSE {})
                     |-> IF k = HandleSource THEN Blob(content, 0, {})
                         ELSE Blob(RpmContent(PkgA), 1, {})]
    /\ writes = <<>>
    /\ proc = [r \in Runners |-> IdleProc]
    /\ upload_directory = DefaultUploadDirectory
    /\ policy = "distribution"
    /\ started = FALSE
    /\ nTouch = 0
    /\ envSinceStart = FALSE
    /\ envSinceEnd = FALSE
    /\ arg = Identity(<<>>, <<>>, <<>>, <<>>)
    /\ result = None
    /\ info = None
    /\ again = None
    /\ local = IdleLocal("posix")
    /\ handle = [IdleHandle EXCEPT !.pc = "ready", !.path = HandleSource]

HandleFrame ==
    UNCHANGED <<proc, upload_directory, policy, started, Env, arg, result, info,
                again, local>>

\* name(), version(), dist(), arch() or release()
Accessor(f) ==
    /\ handle.pc = "ready"
    /\ handle.calls < MaxCalls
    /\ LET h == GetPackage(handle, store)
       IN  handle' = [h EXCEPT !.calls = @ + 1,
                               !.returned = IF h.error = "none"
                                            THEN [accessor |-> f, value |-> h.local_package[f]]
                                            ELSE None]
    /\ UNCHANGED <<store, writes>>
    /\ HandleFrame

\* copy_local(local_path)
CopyLocal ==
    /\ handle.pc = "ready"
    /\ handle.calls < MaxCalls
    /\ handle' = [GetPackage(handle, store) EXCEPT !.calls = @ + 1, !.returned = None]
    /\ UNCHANGED <<store, writes>>
    /\ HandleFrame

\* move(new_path_str) up to its check that the destination is free
HandleMove(new_path_str) ==
    /\ handle.pc = "ready"
    /\ handle.calls < MaxCalls
    /\ new_path_str # handle.path
    /\ LET h == [handle EXCEPT !.calls = @ + 1, !.returned = None,
                               !.old_path = handle.path, !.new_path = new_path_str,
                               !.before = store]
       IN  IF DestinationExists(store, new_path_str)
           THEN handle' = [h EXCEPT !.error = "FileExistsError", !.outcome = "collision"]
           ELSE handle' = [h EXCEPT !.error = "none", !.outcome = "moving",
                                    !.pc = "move_copy"]
    /\ UNCHANGED <<store, writes>>
    /\ HandleFrame

\* move(): new_blob_client.start_copy_from_url(blob_client.url)
HandleMoveCopy ==
    /\ handle.pc = "move_copy"
    /\ IF ~Exists(store, handle.path)
       THEN /\ handle' = [handle EXCEPT !.pc = "ready", !.error = "ResourceNotFoundError",
                                        !.outcome = "failed"]
            /\ UNCHANGED <<store, writes>>
       ELSE /\ store' = Put(store, handle.new_path,
                            Blob(store[handle.path].content,
                                 Written(writes, handle.new_path) + 1,
                                 store[handle.path].meta))
            /\ writes' = CountWrite(writes, handle.new_path)
            /\ handle' = [handle EXCEPT !.pc = "move_delete"]
    /\ HandleFrame

\* move(): blob_client.delete_blob(), then self.path = Path(new_path_str)
HandleMoveDelete ==
    /\ handle.pc = "move_delete"
    /\ IF ~Exists(store, handle.path)
       THEN /\ handle' = [handle EXCEPT !.pc = "ready", !.error = "ResourceNotFoundError",
                                        !.outcome = "failed"]
            /\ UNCHANGED store
       ELSE /\ store' = Delete(store, handle.path)
            /\ handle' = [handle EXCEPT !.pc = "ready", !.outcome = "moved",
                                        !.path = PathAfterMove(handle.path, handle.new_path)]
    /\ UNCHANGED writes
    /\ HandleFrame

HandleNext ==
    \/ \E f \in Accessors : Accessor(f)
    \/ CopyLocal
    \/ \E new_path_str \in MoveTargets : HandleMove(new_path_str)
    \/ HandleMoveCopy
    \/ HandleMoveDelete

HandleSpec == HandleInit /\ [][HandleNext]_vars

----------------------------------------------------------------------------
(* list_uploads on its own: the storage-backed organiser over a container *)
(* that holds any of a few blobs, inside and outside the upload directory *)

\* blob names: packages and another file in the upload directory, a package in
\* a directory below it, and packages elsewhere in the container
ListedNames ==
    { PathStr : PathStr \in {
        <<"u", "p", "l", "o", "a", "d", "/", "0", ".", "r", "p", "m">>,
        <<"u", "p", "l", "o", "a", "d", "/", "a", ".", "r", "p", "m">>,
        <<"u", "p", "l", "o", "a", "d", "/", "n", ".", "t", "x", "t">>,
        <<"u", "p", "l", "o", "a", "d", "/", "2", "/", "q", ".", "r", "p", "m">>,
        <<"u", "p", "l", "o", "a", "d", "x", "/", "2", "/", "p", ".", "r", "p", "m">>,
        <<"u", "p", "l", "o", "a", "d", ".", "r", "p", "m">>,
        <<"c", "m", "/", "2", "/", "a", ".", "r", "p", "m">> } }

ListInit ==
    /\ \E S \in SUBSET ListedNames : store = [k \in S |-> Blob(RpmContent(PkgA), 0, {})]
    /\ writes = <<>>
    /\ proc = [r \in Runners |-> IdleProc]
    /\ upload_directory = DefaultUploadDirectory
    /\ policy \in {"distribution", "flat"}
    /\ started = FALSE
    /\ nTouch = 0
    /\ envSinceStart = FALSE
    /\ envSinceEnd = FALSE
    /\ arg = Identity(<<>>, <<>>, <<>>, <<>>)
    /\ result = None
    /\ info = None
    /\ again = None
    /\ local = IdleLocal("posix")
    /\ handle = IdleHandle

\* organiser.list_uploads()
ListUploadsCall ==
    /\ result = None
    /\ result' = [packages |-> list_uploads(store, upload_directory)]
    /\ UNCHANGED <<store, writes, proc, upload_directory, policy, started, Env, arg,
                   info, again, local, handle>>

ListNext == ListUploadsCall

ListSpec == ListInit /\ [][ListNext]_vars

TypeOK ==
    /\ \A k \in DOMAIN store : store[k].lm \in Nat
    /\ started \in BOOLEAN

----------------------------------------------------------------------------
(* Properties *)

\* blob k is a package that the repository manager is to index: an .rpm that
\* lies neither in an upload nor in a rejected directory
Classified(k) ==
    /\ Len(k) > 4 /\ SubSeq(k, Len(k) - 3, Len(k)) = <<".", "r", "p", "m">>
    /\ LET parts == PathOf(k)
       IN  \/ Len(parts) < 2
           \/ parts[Len(parts) - 1] \notin {<<"u", "p", "l", "o", "a", "d">>,
                                            <<"r", "e", "j", "e", "c", "t", "e", "d">>}

\* C1: process() runs its three phases strictly in order. Once check_metadata
\* has been called, organise() has handled every upload it listed; once
\* merge_metadata has been called, check_metadata has been called on every
\* classified package, none is left to check and no create_metadata is under way.
C1_PhasesInOrder ==
    \A r \in Active :
        LET p == proc[r] IN
        /\ p.checked # {} =>
              /\ p.organised = p.listed
              /\ p.uploads = <<>>
        /\ p.merged # {} =>
              /\ p.organised = p.listed
              /\ \A k \in DOMAIN store \ p.checked : ~Classified(k)
              /\ p.all_packages = <<>>
              /\ p.package = None

\* a run that relocated two uploads and checked two packages is merging
C1_Witness ==
    \E r \in Active :
        /\ proc[r].pc = "merge_run"
        /\ Cardinality(proc[r].organised) >= 2
        /\ Cardinality(proc[r].checked) >= 2
        /\ Len(proc[r].created) >= 2

\* a storage write of a merged index: a put or a delete in the repodata
\* directory of one of the paths in dirs
IndexWrite(m, dirs) ==
    /\ m[1] \in {"put", "delete"}
    /\ \E d \in dirs : Parent(PathOf(m[2])) = Join(PathOf(d), Repodata)

\* C2 as the specification states it: a run of process() that follows a run
\* that returned, with no client write between the two nor during the second,
\* has made no storage write when it returns.
C2_SecondRunWritesNothing ==
    \A r \in Active :
        (proc[r].pc = "done" /\ proc[r].second /\ ~envSinceStart) => proc[r].muts = {}

\* C2, amended: a run of process() that follows a run that returned, with no
\* client write since that first run began, relocates no upload and calls
\* create_metadata on no package; its only storage writes are puts and deletes
\* of merged-index files in the repodata of the paths it merges.
C2_SecondRunWritesOnlyIndex ==
    \A r \in Active :
        (proc[r].second_strict /\ ~envSinceStart) =>
            /\ proc[r].organised = proc[r].skipped
            /\ proc[r].created = <<>>
            /\ \A m \in proc[r].muts : IndexWrite(m, proc[r].merged)

\* such a second run has returned: it found an upload still in place and two
\* packages to check, and has written merged-index files
C2_Witness ==
    \E r \in Active :
        /\ proc[r].pc = "done" /\ proc[r].second_strict /\ ~envSinceStart
        /\ proc[r].skipped # {}
        /\ Cardinality(proc[r].checked) >= 2
        /\ proc[r].muts # {}

\* check_metadata(k) finds the fragment of k stale: absent, or without the
\* RpmLastModified tag, or with a tag that is not the string of k's last-modified
StaleFragment(st, k) ==
    LET frag == MetadataPath(k) IN
    \/ frag \notin DOMAIN st
    \/ \A kv \in st[frag].meta : kv[1] # "RpmLastModified"
    \/ \E kv \in st[frag].meta : kv[1] = "RpmLastModified" /\ kv[2] # ToStr(st[k].lm)

\* C3: every call check_metadata(k) on a package k that is in the container
\* either finds its fragment stale and calls create_metadata(k), once, or finds
\* it fresh, calls nothing, writes nothing and goes on to the next package; and
\* no run calls create_metadata twice on one package.
C3_StaleIffRegenerated ==
    /\ [][\A r \in Active :
            LET p == proc[r]
                k == Head(p.all_packages)
            IN  (p.pc = "check" /\ p.all_packages # <<>> /\ proc'[r] # p /\ k \in DOMAIN store) =>
                    IF StaleFragment(store, k)
                    THEN /\ proc'[r].pc = "create_generate"
                         /\ proc'[r].package = k
                         /\ proc'[r].created = Append(p.created, k)
                    ELSE /\ proc'[r].pc = "check"
                         /\ proc'[r].all_packages = Tail(p.all_packages)
                         /\ proc'[r].created = p.created
                         /\ proc'[r].muts = p.muts
                         /\ store' = store]_vars
    /\ [](\A r \in Active : \A i, j \in 1..Len(proc[r].created) :
            proc[r].created[i] = proc[r].created[j] => i = j)

\* create_metadata is under way for a package whose fragment carries the tag of
\* an earlier last-modified time: the package changed after its fragment was made
C3_Witness ==
    \E r \in Active :
        /\ proc[r].pc = "create_generate"
        /\ proc[r].package \in DOMAIN store
        /\ MetadataPath(proc[r].package) \in DOMAIN store
        /\ \E kv \in store[MetadataPath(proc[r].package)].meta :
              kv[1] = "RpmLastModified" /\ kv[2] # ToStr(store[proc[r].package].lm)
        /\ store[proc[r].package].lm > proc[r].captured - 1
        /\ proc[r].captured > 1

\* the RpmLastModified tag of the fragment of package k
TagOf(st, k) == {kv[2] : kv \in {x \in st[MetadataPath(k)].meta : x[1] = "RpmLastModified"}}

\* C4 as the specification states it: whenever create_metadata writes the tag
\* of a fragment and the package has changed since create_metadata began, the
\* tag written is the string of the last-modified the package has at the write.
C4_TagCarriesNewerTime ==
    [][\A r \in Active :
          LET p == proc[r] IN
          (/\ p.pc = "create_tag" /\ proc'[r].pc = "check"
           /\ p.package \in DOMAIN store
           /\ store[p.package].lm # p.captured) =>
              TagOf(store', p.package) = {ToStr(store[p.package].lm)}]_vars

\* C4, amended: create_metadata reads the package's last-modified once more
\* after createrepo_c has returned 0 and after the fragment has been uploaded,
\* and the tag it then writes is the string of the value of that read, not of
\* the value the package had when create_metadata began.
C4_TagIsRereadTime ==
    /\ [][\A r \in Active :
            LET p == proc[r] IN
            (p.pc = "create_props" /\ proc'[r].pc = "create_tag") =>
                /\ p.generator_rc = 0
                /\ <<"put", MetadataPath(p.package)>> \in p.muts
                /\ MetadataPath(p.package) \in DOMAIN store
                /\ proc'[r].blob_properties.lm = store[p.package].lm]_vars
    /\ [][\A r \in Active :
            LET p == proc[r] IN
            (p.pc = "create_tag" /\ proc'[r].pc = "check") =>
                TagOf(store', p.package) = {ToStr(p.blob_properties.lm)}]_vars

\* a fragment has just been tagged for a package that changed while
\* create_metadata was at work on it: the tag is the string of the newer time
C4_Witness ==
    \E r \in Active :
        LET p == proc[r] IN
        /\ p.pc = "check" /\ p.tagged # None
        /\ p.created # <<>> /\ p.created[Len(p.created)] = p.tagged
        /\ store[p.tagged].lm # p.captured
        /\ TagOf(store, p.tagged) = {ToStr(store[p.tagged].lm)}

\* C5: once createrepo_c has returned a non-zero result for a package, the run
\* has raised; it has neither uploaded nor tagged a fragment for that package,
\* has checked none of the packages that came after it in all_packages, and
\* has merged no path.
C5_GeneratorFailureAborts ==
    \A r \in Active :
        LET p == proc[r] IN
        p.generator_rc # 0 =>
            /\ p.pc = "raised" /\ p.error = "RuntimeError"
            /\ p.all_packages # <<>> /\ Head(p.all_packages) = p.package
            /\ <<"put", MetadataPath(p.package)>> \notin p.muts
            /\ <<"tag", MetadataPath(p.package)>> \notin p.muts
            /\ \A i \in 2..Len(p.all_packages) : p.all_packages[i] \notin p.checked
            /\ p.merged = {} /\ p.paths = {}
            /\ \A m \in p.muts : Parent(PathOf(m[2])) # Join(Parent(PathOf(p.package)), Repodata)

\* createrepo_c has failed on a package while another package was still to be
\* checked, after the run had relocated two uploads
C5_Witness ==
    \E r \in Active :
        /\ proc[r].generator_rc # 0
        /\ Len(proc[r].all_packages) >= 2
        /\ Cardinality(proc[r].organised \ proc[r].skipped) >= 2

\* the fragments in the container whose package lies directly in directory path
OwnFragments(st, path) ==
    {k \in DOMAIN st : /\ Suffix(PathOf(k)) = <<".", "p", "a", "c", "k", "a", "g", "e">>
                       /\ Parent(PathOf(k)) = PathOf(path)}

\* C6 as the specification states it: the fragments merge_metadata(path) hands
\* to mergerepo_c are exactly the fragments of the packages that lie directly
\* in path, none of another directory among them and none of its own left out.
C6_MergesExactlyOwnFragments ==
    \A r \in Active :
        proc[r].pc = "merge_run" =>
            Range(proc[r].downloaded) = OwnFragments(store, proc[r].path)

\* C7: while merge_metadata(path) deletes, it has uploaded every file of the
\* merge's output, and it deletes only files that lay in path/repodata before
\* and are not in the output; when it returns it has uploaded exactly the
\* output, deleted exactly the earlier files that are not in the output, and
\* the files in path/repodata are exactly the output.
C7_MergeGarbageCollection ==
    \A r \in Active :
        LET p == proc[r] IN
        /\ p.deleted # {} => p.uploaded = p.new_metadata
        /\ ~p.upload_after_delete
        /\ p.deleted \subseteq p.existing \ p.new_metadata
        /\ p.completed # None =>
              /\ p.uploaded = p.new_metadata
              /\ p.deleted = p.existing \ p.new_metadata
              /\ Published(store, p.completed) = p.new_metadata
              /\ \A f \in p.new_metadata :
                    <<"put", StrOf(PathOf(p.completed) \o <<Repodata, f>>)>> \in p.muts

\* a merge has returned that found two files in place, wrote one of them anew
\* and deleted the other
C7_Witness ==
    \E r \in Active :
        /\ proc[r].completed # None
        /\ proc[r].deleted # {}
        /\ proc[r].existing \cap proc[r].new_metadata # {}

\* blob name k lies directly in a directory named upload or rejected
Unclassified(k) ==
    LET e == RFind(k, "/") IN
    \E d \in {<<"u", "p", "l", "o", "a", "d">>, <<"r", "e", "j", "e", "c", "t", "e", "d">>} :
        /\ e > Len(d)
        /\ SubSeq(k, e - Len(d), e - 1) = d
        /\ e - Len(d) = 1 \/ k[e - Len(d) - 1] = "/"

\* C8: no run lists, checks or generates a fragment for a blob that lies
\* directly in a directory named upload or rejected, no fragment of such a
\* blob is in the container, and no run lists or merges such a directory.
C8_UploadAndRejectedNeverIndexed ==
    /\ \A r \in Active :
          LET p == proc[r] IN
          /\ \A k \in p.packages \cup p.checked \cup Range(p.created) \cup Range(p.all_packages) :
                ~Unclassified(k)
          /\ \A d \in p.paths \cup p.merged : ~Unclassified(d \o <<"/", "x">>)
    /\ \A k \in DOMAIN store :
          Unclassified(k) =>
              /\ store[k].content.kind = "rpm"
              /\ StrOf(WithSuffix(PathOf(k), <<".", "p", "a", "c", "k", "a", "g", "e">>))
                     \notin DOMAIN store

\* a run has merged a path while a package lay in rejected and another was
\* still in upload
C8_Witness ==
    \E r \in Active :
        /\ proc[r].merged # {}
        /\ proc[r].created # <<>>
        /\ \E k \in DOMAIN store : Unclassified(k) /\ Name(Parent(PathOf(k))) = Rejected
        /\ \E k \in DOMAIN store :
              Unclassified(k) /\ Name(Parent(PathOf(k))) = DefaultUploadDirectory

\* C9: when organise() comes to an upload whose destination holds a blob, the
\* step changes nothing in the container, raises nothing and goes on to the
\* next upload; and once organise() is over every upload it listed is either
\* such a skipped one, still in place, or has been copied and deleted.
C9_OccupiedDestinationSkipped ==
    /\ [][\A r \in Active :
            LET p == proc[r] IN
            (/\ p.pc = "organise" /\ p.uploads # <<>> /\ proc'[r] # p
             /\ Head(p.uploads) \in DOMAIN store
             /\ StrOf(get_path(policy, Root, store[Head(p.uploads)].content.id))
                    \in DOMAIN store) =>
                /\ store' = store
                /\ proc'[r].pc = "organise" /\ proc'[r].error = "none"
                /\ proc'[r].uploads = Tail(p.uploads)
                /\ proc'[r].muts = p.muts
                /\ Head(p.uploads) \in proc'[r].skipped]_vars
    /\ [](\A r \in Active :
            LET p == proc[r] IN
            p.pc = "list_packages" =>
                /\ p.organised = p.listed
                /\ \A u \in p.skipped : u \in DOMAIN store /\ <<"delete", u>> \notin p.muts
                /\ \A u \in p.listed \ p.skipped :
                      u \notin DOMAIN store /\ <<"delete", u>> \in p.muts)

\* organise() is over: it skipped an upload whose destination was taken and
\* relocated an upload it came to after that one
C9_Witness ==
    \E r \in Active :
        /\ proc[r].pc = "list_packages"
        /\ \E u \in proc[r].skipped : \E v \in proc[r].listed \ proc[r].skipped :
              StrLess(u, v) /\ <<"delete", v>> \in proc[r].muts

\* tag is one or more letters a-z followed by one or more digits and nothing
\* else; i is the number of the letters
LettersThenDigits(tag, i) ==
    /\ i \in 1..(Len(tag) - 1)
    /\ \A j \in 1..i : tag[j] \in Lower
    /\ \A j \in (i + 1)..Len(tag) : tag[j] \in Digits

\* C10 as the specification states it: under the distribution policy get_path
\* returns root/letters/digits/filename when the whole distribution tag is
\* letters followed by digits, and root/rejected/filename when there is no tag
\* or the tag is anything else; filename is name-version-release.arch.rpm.
C10_DistributionPath ==
    (policy = "distribution" /\ result # None) =>
        LET tag      == DistOf(arg.release)
            filename == arg.name \o <<"-">> \o arg.version \o <<"-">> \o arg.release
                            \o <<".">> \o arg.arch \o <<".", "r", "p", "m">>
        IN  IF \E i \in 1..Len(tag) : LettersThenDigits(tag, i)
            THEN \E i \in 1..Len(tag) :
                    /\ LettersThenDigits(tag, i)
                    /\ result = Root \o <<SubSeq(tag, 1, i), SubSeq(tag, i + 1, Len(tag)), filename>>
            ELSE result = Root \o <<<<"r", "e", "j", "e", "c", "t", "e", "d">>, filename>>

\* release is, in full, digits (i of them), a dot, letters a-z (up to place
\* j) and digits to its end
ReleaseShape(release, i, j) ==
    /\ 1 <= i /\ i + 1 < j /\ j < Len(release)
    /\ \A n \in 1..i : release[n] \in {"0", "1", "2", "3", "4", "5", "6", "7", "8", "9"}
    /\ release[i + 1] = "."
    /\ \A n \in (i + 2)..j : release[n] \in Lower
    /\ \A n \in (j + 1)..Len(release) :
          release[n] \in {"0", "1", "2", "3", "4", "5", "6", "7", "8", "9"}

\* C11: for a release that is in full digits, a dot, letters and digits, the
\* distribution tag read from the headers is the letters and digits after the
\* dot, and under the distribution policy get_path places the package in the
\* directory letters/digits.
C11_MatchingReleaseBucket ==
    \A i, j \in 1..Len(arg.release) :
        ReleaseShape(arg.release, i, j) =>
            /\ info # None => info.dist = SubSeq(arg.release, i + 2, Len(arg.release))
            /\ (policy = "distribution" /\ result # None) =>
                  /\ Len(result) = Len(Root) + 3
                  /\ SubSeq(result, 1, Len(result) - 1) =
                        Root \o <<SubSeq(arg.release, i + 2, j),
                                  SubSeq(arg.release, j + 1, Len(arg.release))>>

\* the headers of a package with release 11.cc11 or alike have been read and
\* get_path has placed it
C11_Witness ==
    /\ policy = "distribution" /\ info # None /\ result # None
    /\ \E i, j \in 1..Len(arg.release) :
          ReleaseShape(arg.release, i, j) /\ i >= 2 /\ j - i >= 3

\* C12 as the specification states it: for a release that is not in full
\* digits, a dot, letters and digits, get_path under the distribution policy
\* places the package in the directory rejected.
C12_OtherReleaseRejected ==
    (policy = "distribution" /\ result # None) =>
        ((\A i, j \in 1..Len(arg.release) : ~ReleaseShape(arg.release, i, j)) =>
            /\ Len(result) = Len(Root) + 2
            /\ result[Len(Root) + 1] = <<"r", "e", "j", "e", "c", "t", "e", "d">>)

\* C13: under the flat policy get_path returns root/filename, with filename
\* name-version-release.arch.rpm, for every package: no directory, neither
\* rejected nor one of a distribution, lies between the root and the file.
C13_FlatPath ==
    (policy = "flat" /\ result # None) =>
        result = Root \o <<arg.name \o <<"-">> \o arg.version \o <<"-">> \o arg.release
                             \o <<".">> \o arg.arch \o <<".", "r", "p", "m">>>>

\* get_path has answered under the flat policy for a package whose release
\* carries a distribution tag, and for one whose release carries none
C13_Witness ==
    /\ policy = "flat" /\ result # None
    /\ \/ \E i, j \in 1..Len(arg.release) : ReleaseShape(arg.release, i, j) /\ j - i >= 3
       \/ arg.release = <<"1", "1">>

TagSpan(release, i, e) ==
    /\ 1 <= i /\ i + 2 <= e /\ e <= Len(release)
    /\ \A n \in 1..i : release[n] \in {"0", "1", "2", "3", "4", "5", "6", "7", "8", "9"}
    /\ release[i + 1] = "."
    /\ \A n \in (i + 2)..e : release[n] # "."
    /\ e = Len(release) \/ release[e + 1] = "."

\* C15: the distribution tag read from the headers is the run of characters
\* other than the dot that follows the leading digits and the dot of the
\* release, and there is no tag exactly when the release does not begin with
\* digits, a dot and one more character other than the dot.
C15_DistributionTag ==
    info # None =>
        /\ \A i, e \in 1..Len(arg.release) :
              TagSpan(arg.release, i, e) => info.dist = SubSeq(arg.release, i + 2, e)
        /\ (\A i, e \in 1..Len(arg.release) : ~TagSpan(arg.release, i, e)) <=> info.dist = <<>>
        /\ info.release = arg.release

\* the headers have been read of a package whose release has a tag and a
\* further dotted part after it
C15_Witness ==
    /\ info # None /\ info.dist # <<>>
    /\ \E i, e \in 1..Len(arg.release) :
          TagSpan(arg.release, i, e) /\ e + 1 < Len(arg.release) /\ e >= i + 3

\* C16 as the specification states it: when the local organiser comes to a
\* package whose destination is occupied, organise() raises a
\* destination-exists error and the file at the destination stays as it was.
C16_LocalOccupiedDestinationFatal ==
    local.hit # <<>> =>
        /\ local.pc = "raised" /\ local.error = "FileExistsError"
        /\ local.hit \in DOMAIN store /\ store[local.hit] = local.held

\* blob name k lies in directory dir or in a directory below it
LiesUnder(k, dir) ==
    LET parts == PathOf(k) IN
    /\ Len(parts) > Len(dir)
    /\ SubSeq(parts, 1, Len(dir)) = dir

\* C17 as the specification states it: list_uploads returns, in the order of
\* the listing, exactly the blobs that lie under the upload directory and whose
\* name ends in .rpm, each once, and no blob from outside that directory.
C17_ListUploadsExact ==
    result # <<>> =>
        LET wanted == {k \in DOMAIN store :
                          /\ LiesUnder(k, <<upload_directory>>)
                          /\ Len(k) >= 4 /\ SubSeq(k, Len(k) - 3, Len(k)) = <<".", "r", "p", "m">>}
            got    == result.packages
        IN  /\ {got[i] : i \in 1..Len(got)} = wanted
            /\ Len(got) = Cardinality(wanted)
            /\ \A i, j \in 1..Len(got) : i < j => StrLess(got[i], got[j])

\* the directory of blob k, as list_all_package_paths names it ("." is the root)
DirectoryOf(k) == StrOf(Parent(PathOf(k)))

\* C18: from the moment process() has listed the paths, the directories it has
\* reconciled together with those it still has to reconcile are exactly the
\* parent directories of the classified packages, the root directory among
\* them; a directory already reconciled is never pending again, so each is
\* reconciled once, and when process() returns none is pending.
C18_ReconciledDirectories ==
    \A r \in Runners :
        LET p == proc[r] IN
        p.pc \in {"merge", "merge_run", "merge_upload", "merge_delete", "done"} =>
            /\ p.merged \cup p.paths = {DirectoryOf(k) : k \in {x \in DOMAIN store : Classified(x)}}
            /\ p.merged \cap p.paths = {}
            /\ p.pc = "done" => p.paths = {}

\* a flat-policy run returned after reconciling the root directory
C18_Witness ==
    \E r \in Runners :
        /\ proc[r].pc = "done"
        /\ Dot \in proc[r].merged
        /\ \E k \in DOMAIN store : Classified(k) /\ Parent(PathOf(k)) = <<>>

\* the names of the blobs in the repodata directory of path begin with this
RepodataPrefix(path) == RepodataBlob(path, <<>>) \o Slash

\* blob name k lies in the repodata directory of path
InRepodataOf(k, path) == StartsWith(k, RepodataPrefix(path))

\* C19: when a fragment fails to extract, the merge tool returns non-zero or
\* its output repodata is missing, merge_metadata raises, the run is over, and
\* that reconciliation has uploaded and deleted nothing under the directory's
\* repodata.
C19_MergeFailureAborts ==
    \A r \in Runners :
        LET p == proc[r] IN
        p.merge_outcome \in {"no_extract", "rc", "no_repodata"} =>
            /\ p.pc = "raised"
            /\ p.error \in {"RuntimeError", "FileNotFoundError"}
            /\ p.uploaded = {} /\ p.deleted = {}
            /\ \A m \in p.muts : ~InRepodataOf(m[2], p.path)

\* the merge tool left no output for a directory that has a published index
C19_Witness ==
    \E r \in Runners :
        /\ proc[r].pc = "raised"
        /\ proc[r].merge_outcome = "no_repodata"
        /\ Published(store, proc[r].path) # {}

\* the directory whose repodata holds blob k, or None when k is no index file
RepodataDirOf(k) ==
    LET parts == PathOf(k)
    IN  IF Len(parts) >= 2 /\ parts[Len(parts) - 1] = Repodata
        THEN StrOf(Parent(Parent(parts))) ELSE None

\* the index published for path is the output of one merge, applied whole:
\* every file of it carries the same content
WhollyApplied(st, path) ==
    LET prefix == RepodataPrefix(path)
    IN  \A k1, k2 \in {x \in DOMAIN st : StartsWith(x, prefix)} :
            st[k1].content = st[k2].content

\* C20: when process() has raised, every blob it wrote or deleted under a
\* repodata directory belongs to a directory whose reconciliation it had begun,
\* so the index of every directory not yet reconciled is as it was before the
\* run; and every directory it had begun, other than the one it was working on
\* when it raised, has its index applied whole.
C20_FailureLeavesOtherIndexes ==
    \A r \in Runners :
        LET p == proc[r] IN
        p.pc = "raised" =>
            /\ \A m \in p.muts :
                   RepodataDirOf(m[2]) # None => RepodataDirOf(m[2]) \in p.merged
            /\ \A d \in p.paths :
                   LET prefix == RepodataPrefix(d)
                   IN  \A m \in p.muts : ~StartsWith(m[2], prefix)
            /\ \A d \in p.merged \ {p.path} : WhollyApplied(store, d)

\* a run raised part-way through the uploads of one directory, while another
\* directory, whose index an earlier run published, was still to be reconciled
C20_Witness ==
    \E r \in Runners :
        /\ proc[r].pc = "raised"
        /\ proc[r].path # None
        /\ proc[r].uploaded # {} /\ proc[r].to_upload # {}
        /\ \E d \in proc[r].paths : Published(store, d) # {}

\* C21 as the specification states it: a package whose header cannot be read
\* stops a run only when it is met during fragment regeneration; met during
\* organise() it is passed over, the other uploads are relocated and the run
\* goes on.
C21_MalformedUploadPassedOver ==
    \A r \in Runners :
        LET p == proc[r] IN
        (p.pc = "raised" /\ p.error = "RPMError") =>
            /\ p.created # <<>>
            /\ p.created[Len(p.created)] = p.package
            /\ p.organised = p.listed

C27_MoveNeverLoses ==
    LET h == handle IN
    /\ h.pc \in {"move_copy", "move_delete"} =>
          \E k \in {h.old_path, h.new_path} :
              k \in DOMAIN store /\ store[k].content = h.before[h.old_path].content
    /\ h.outcome = "moved" =>
          /\ h.old_path \notin DOMAIN store
          /\ h.new_path \notin DOMAIN h.before
          /\ h.new_path \in DOMAIN store
          /\ store[h.new_path].content = h.before[h.old_path].content
          /\ h.path = h.new_path
    /\ h.outcome = "collision" =>
          /\ h.new_path \in DOMAIN h.before
          /\ store = h.before
          /\ h.path = h.old_path
    /\ h.outcome # "failed"

\* a handle that had been moved once was then moved onto an occupied destination
C27_Witness ==
    /\ handle.outcome = "collision"
    /\ handle.path # HandleSource
    /\ handle.path \in DOMAIN store

\* C23 as the specification states it: when process() on a distribution
\* repository has returned and has skipped no upload, every package lies at
\* the path get_path gives its identity (letters/digits/filename with a valid
\* tag, rejected/filename without), no blob remains in the upload directory,
\* and the repodata of every bucket is a merged index that covers exactly the
\* fragments of the packages of that bucket.
C23_EndToEnd ==
    \A r \in Runners :
        LET p == proc[r] IN
        (p.pc = "done" /\ policy = "distribution" /\ p.skipped = {}) =>
            /\ \A k \in DOMAIN store :
                  /\ store[k].content.kind = "rpm" =>
                        k = StrOf(DistributionGetPath(Root, store[k].content.id))
                  /\ ~StartsWith(k, upload_directory \o Slash)
            /\ \A k \in {x \in DOMAIN store : Classified(x)} :
                  LET index == {x \in DOMAIN store : InRepodataOf(x, DirectoryOf(k))}
                  IN  /\ index # {}
                      /\ \A x \in index :
                            store[x].content.covers =
                                {MetadataPath(j) : j \in {y \in DOMAIN store :
                                    Classified(y) /\ DirectoryOf(y) = DirectoryOf(k)}}

\* C24 as the specification states it: when two runs relocate the same upload
\* at the same time, the check that the destination exists guards the copy:
\* no destination is written by more than one copy, and no run is ended by an
\* error inside organise() (the run that comes second sees the destination
\* taken, logs it and goes on).
C24_ExistsCheckGuards ==
    /\ \A k \in DOMAIN writes : Classified(k) => writes[k] <= 1
    /\ \A r \in Active :
          proc[r].pc = "raised" => proc[r].organised = proc[r].listed

\* C25: two overlapping runs that have both reconciled the same directory and
\* returned can leave a published repodata that is the new set of neither: what
\* is published then comes from the two new sets only, and every file of a
\* run's new set that is missing was deleted by the other run.
C25_RaceOnDelete ==
    (\A r \in Active : proc[r].pc = "done" /\ proc[r].completed = RaceDirectory) =>
        LET published == Published(store, RaceDirectory) IN
        /\ published \subseteq UNION {proc[r].new_metadata : r \in Active}
        /\ \A r \in Active : \A file \in proc[r].new_metadata \ published :
              \E o \in Active \ {r} : file \in proc[o].deleted

C25_Witness ==
    /\ \A r \in Active : proc[r].pc = "done" /\ proc[r].completed = RaceDirectory
    /\ \A r \in Active : Published(store, RaceDirectory) # proc[r].new_metadata
    /\ \E r \in Active : \E o \in Active \ {r} :
          \E file \in proc[r].uploaded \cap proc[o].deleted :
              file \notin Published(store, RaceDirectory)

\* C26: when process() has returned and no client has written to the container
\* since the run began, every classified package has a valid fragment: the
\* fragment exists, carries the RpmLastModified tag, and the tag is the string
\* of the package's current last-modified; and a run that follows it, again
\* with no client write, has called create_metadata on no package.
C26_FragmentsValidAfterRun ==
    \A r \in Runners :
        /\ (proc[r].pc = "done" /\ ~envSinceStart) =>
              \A k \in DOMAIN store : Classified(k) => ~StaleFragment(store, k)
        /\ (proc[r].second_strict /\ ~envSinceStart) => proc[r].created = <<>>

\* a package was overwritten before a run; that run regenerated its fragment
\* and returned, and the run that followed has checked it and returned
C26_Witness ==
    \E r \in Runners :
        /\ proc[r].pc = "done" /\ proc[r].second_strict /\ ~envSinceStart
        /\ nTouch = 1
        /\ \E k \in proc[r].checked : store[k].lm > 1 /\ ~StaleFragment(store, k)

\* blob k lies in the repository's upload directory
InUploadDirectory(k) == Parent(PathOf(k)) = Join(Root, upload_directory)

\* C28 as the specification states it: whatever name the upload directory is
\* configured with, a package lying in it is never among the packages that
\* list_all_packages returned, no fragment is ever written for it, and the
\* upload directory is never among the paths to reconcile.
C28_UploadDirectoryExcluded ==
    \A r \in Active :
        /\ \A k \in proc[r].packages : ~InUploadDirectory(k)
        /\ \A k \in DOMAIN store :
              store[k].content.kind = "fragment" => ~InUploadDirectory(k)
        /\ StrOf(Join(Root, upload_directory)) \notin proc[r].paths \cup proc[r].merged

\* C29 as the specification states it: when process() has returned and no
\* client has written to the container since the run began, every published
\* index covers only fragments of packages that are in the container: the
\* fragment of a package a client removed before the run is merged into no
\* index, and the index of a directory that lost its last package no longer
\* lists it.
C29_RemovedPackageLeavesIndex ==
    \A r \in Active :
        (proc[r].pc = "done" /\ ~envSinceStart) =>
            \A x \in DOMAIN store :
                store[x].content.kind = "index" =>
                    \A f \in store[x].content.covers :
                        \E k \in DOMAIN store : Classified(k) /\ MetadataPath(k) = f

====
